---------------------------- MODULE Spec2Model ----------------------------
(***************************************************************************)
(* Model of nuturtle_description/launch/load_one.launch.py.                *)
(*                                                                         *)
(* generate_launch_description() returns a LaunchDescription holding eight *)
(* entities.  The launch service visits them one after the other, in list  *)
(* order, against one launch context: three DeclareLaunchArgument, one     *)
(* SetLaunchConfiguration and four Node actions.  Visiting a Node whose    *)
(* condition holds performs its substitutions and hands the process to the *)
(* launch service; an exception while visiting an entity ends the pass and *)
(* leaves what earlier entities already did in place.                      *)
(*                                                                         *)
(* A launch string is a sequence of one-character strings, so that         *)
(* concatenation, path joining and case folding are computed and not       *)
(* assumed.                                                                *)
(***************************************************************************)
EXTENDS Naturals, Sequences, FiniteSets, TLC

VARIABLES
    overrides,              \* argument name -> value given on the command line
    share,                  \* what FindPackageShare("nuturtle_description") yields
    xacroOk,                \* whether the xacro command exits with status 0
    launch_configurations,  \* the launch context's configurations
    pc,                     \* index of the next entity of the LaunchDescription
    status,                 \* "running", "done" or "error"
    error,                  \* the exception that ended the pass, or "none"
    emitted                 \* process specs handed to the launch service, in order

vars == <<overrides, share, xacroOk, launch_configurations, pc, status, error, emitted>>

---------------------------------------------------------------------------
(* Strings                                                                 *)

Str_gui     == <<"g", "u", "i">>
Str_jsp     == <<"j", "s", "p">>
Str_none    == <<"n", "o", "n", "e">>
Str_true    == <<"t", "r", "u", "e">>
Str_false   == <<"f", "a", "l", "s", "e">>
Str_one     == <<"1">>
Str_zero    == <<"0">>
Str_purple  == <<"p", "u", "r", "p", "l", "e">>
Str_empty   == << >>
Sep         == <<"/">>

UpperCase == <<"A", "B", "C", "D", "E", "F", "G", "H", "I", "J", "K", "L", "M", "N", "O", "P", "Q", "R", "S", "T", "U", "V", "W", "X", "Y", "Z">>
LowerCase == <<"a", "b", "c", "d", "e", "f", "g", "h", "i", "j", "k", "l", "m", "n", "o", "p", "q", "r", "s", "t", "u", "v", "w", "x", "y", "z">>

\* str.lower() on one character
LowerChar(c) ==
    IF \E i \in 1..Len(UpperCase) : UpperCase[i] = c
    THEN LowerCase[CHOOSE i \in 1..Len(UpperCase) : UpperCase[i] = c]
    ELSE c

\* str.lower()
Lower(s) == [i \in 1..Len(s) |-> LowerChar(s[i])]

\* str.startswith("/") and str.endswith("/")
StartsWithSep(s) == Len(s) > 0 /\ s[1] = Sep[1]
EndsWithSep(s)   == Len(s) > 0 /\ s[Len(s)] = Sep[1]

\* ''.join(parts): what performing a list of substitutions yields
RECURSIVE Concat(_)
Concat(parts) ==
    IF parts = << >> THEN << >> ELSE Head(parts) \o Concat(Tail(parts))

\* one step of os.path.join: an absolute component discards what precedes it,
\* an empty or "/"-terminated prefix takes the component as is, otherwise a
\* single "/" is put between the two
PathJoin2(path, b) ==
    IF StartsWithSep(b) THEN b
    ELSE IF path = << >> \/ EndsWithSep(path) THEN path \o b
    ELSE path \o Sep \o b

\* PathJoinSubstitution.perform: os.path.join(*components)
RECURSIVE PathJoinFrom(_, _)
PathJoinFrom(path, rest) ==
    IF rest = << >> THEN path
    ELSE PathJoinFrom(PathJoin2(path, Head(rest)), Tail(rest))

PathJoinSubstitution(components) ==
    PathJoinFrom(Head(components), Tail(components))

---------------------------------------------------------------------------
(* Declared arguments                                                      *)

ArgNames == {"use_jsp", "use_rviz", "color"}

UseJspDefault  == Str_gui
UseRvizDefault == Str_true
ColorDefault   == Str_purple

ColorChoices_Widened ==
    {<<"r", "e", "d">>, <<"g", "r", "e", "e", "n">>, <<"b", "l", "u", "e">>, <<"p", "u", "r", "p", "l", "e">>, <<"c", "y", "a", "n">>, <<"m", "a", "g", "e", "n", "t", "a">>, <<"y", "e", "l", "l", "o", "w">>,
     Str_empty, <<"o", "r", "a", "n", "g", "e">>}

ColorChoices ==
    {<<"r", "e", "d">>, <<"g", "r", "e", "e", "n">>, <<"b", "l", "u", "e">>, <<"p", "u", "r", "p", "l", "e">>, <<"c", "y", "a", "n">>, <<"m", "a", "g", "e", "n", "t", "a">>, <<"y", "e", "l", "l", "o", "w">>,
     Str_empty}

---------------------------------------------------------------------------
(* Conditions                                                              *)

\* EqualsSubstitution._str_is_bool
StrIsBool(s) == Lower(s) \in {Str_true, Str_false, Str_one, Str_zero}

\* EqualsSubstitution.perform.  Two boolean spellings are compared as
\* booleans; everything else is compared as text.  (The closeness test for
\* two numerals cannot apply: no right-hand side of this file is a numeral.)
EqualsSubstitution(left, right) ==
    IF StrIsBool(left) /\ StrIsBool(right)
    THEN IF (Lower(left) \in {Str_true, Str_one}) = (Lower(right) \in {Str_true, Str_one})
         THEN Str_true ELSE Str_false
    ELSE IF left = right THEN Str_true ELSE Str_false

\* IfCondition: the performed expression is true for "true"/"1"
IfCondition(expression) == Lower(expression) \in {Str_true, Str_one}

JspGuiCondition_Always(lc) == TRUE

JspGuiCondition(lc) == IfCondition(EqualsSubstitution(lc["use_jsp"], Str_gui))

JspCondition_Pasted(lc) == IfCondition(EqualsSubstitution(lc["use_jsp"], Str_gui))

JspCondition(lc) == IfCondition(EqualsSubstitution(lc["use_jsp"], Str_jsp))

RvizCondition(lc) == IfCondition(EqualsSubstitution(lc["use_rviz"], Str_true))

---------------------------------------------------------------------------
(* Derived values and process specs                                        *)

RvizColorValue_NoSuffix(sh, lc) ==
    Concat(<<sh, <<"/", "c", "o", "n", "f", "i", "g", "/", "b", "a", "s", "i", "c", "_">>, lc["color"]>>)

\* the value SetLaunchConfiguration gives rviz_color
RvizColorValue(sh, lc) ==
    Concat(<<sh, <<"/", "c", "o", "n", "f", "i", "g", "/", "b", "a", "s", "i", "c", "_">>, lc["color"], <<".", "r", "v", "i", "z">>>>)

FramePrefix_Slash(lc) == lc["color"] \o Sep

\* the frame_prefix parameter
FramePrefix(lc) == PathJoinSubstitution(<<lc["color"], Str_empty>>)

\* the command line of the robot_description parameter
XacroCommand(sh, lc) ==
    Concat(<<<<"x", "a", "c", "r", "o", " ">>,
             PathJoinSubstitution(<<sh, <<"u", "r", "d", "f">>, <<"t", "u", "r", "t", "l", "e", "b", "o", "t", "3", "_", "b", "u", "r", "g", "e", "r", ".", "u", "r", "d", "f", ".", "x", "a", "c", "r", "o">>>>),
             <<" ", "c", "o", "l", "o", "r", ":", "=">>, lc["color"]>>)

\* The expanded document is opaque; it is a function of the command line.
XacroOutput(command) == <<"<", "r", "o", "b", "o", "t", "/", ">">> \o command

JspGuiNode(lc) ==
    [package    |-> "joint_state_publisher_gui",
     executable |-> "joint_state_publisher_gui",
     namespace  |-> lc["color"],
     parameters |-> << >>,
     arguments  |-> << >>]

JspNode(lc) ==
    [package    |-> "joint_state_publisher",
     executable |-> "joint_state_publisher",
     namespace  |-> lc["color"],
     parameters |-> << >>,
     arguments  |-> << >>]

RobotStatePublisherNode(sh, lc) ==
    [package    |-> "robot_state_publisher",
     executable |-> "robot_state_publisher",
     namespace  |-> lc["color"],
     parameters |-> << <<"frame_prefix", FramePrefix(lc)>>,
                       <<"robot_description", XacroOutput(XacroCommand(sh, lc))>> >>,
     arguments  |-> << >>]

RvizNode_DefaultNamespace(sh, lc) ==
    [package    |-> "rviz2",
     executable |-> "rviz2",
     namespace  |-> Str_empty,
     parameters |-> << >>,
     arguments  |-> << <<"-", "d">>, lc["rviz_color"],
                       PathJoinSubstitution(<<sh, lc["rviz_color"]>>) >>]

RvizNode(sh, lc) ==
    [package    |-> "rviz2",
     executable |-> "rviz2",
     namespace  |-> lc["color"],
     parameters |-> << >>,
     arguments  |-> << <<"-", "d">>, lc["rviz_color"],
                       PathJoinSubstitution(<<sh, lc["rviz_color"]>>) >>]

Emit_Front(specs, node) == <<node>> \o specs

\* an executed Node action is handed over after those executed before it
Emit(specs, node) == Append(specs, node)

---------------------------------------------------------------------------
(* Inputs                                                                  *)

Unset == <<"<unset>">>

UseJspInputs  == {Str_gui, Str_jsp, Str_none, <<"G", "U", "I">>, <<"b", "o", "t", "h">>, Str_empty}
UseRvizInputs == {Str_true, Str_false, <<"T", "R", "U", "E">>, <<"m", "a", "y", "b", "e">>, Str_empty}
ColorInputs   == ColorChoices \cup {<<"o", "r", "a", "n", "g", "e">>, <<"R", "e", "d">>}
ShareDirs     == {<<"/", "o", "p", "t", "/", "w", "s", "/", "s", "h", "a", "r", "e", "/", "n", "u", "t", "u", "r", "t", "l", "e", "_", "d", "e", "s", "c", "r", "i", "p", "t", "i", "o", "n">>, <<"/", "s", "h", "a", "r", "e", "/">>}

\* the mapping of the arguments that were given
Supplied(j, r, c) ==
    [n \in {m \in ArgNames : (CASE m = "use_jsp"  -> j
                                [] m = "use_rviz" -> r
                                [] m = "color"    -> c) # Unset}
        |-> CASE n = "use_jsp"  -> j
              [] n = "use_rviz" -> r
              [] n = "color"    -> c]

Init ==
    /\ \E j \in UseJspInputs \cup {Unset}, r \in UseRvizInputs \cup {Unset},
          c \in ColorInputs \cup {Unset} :
          overrides = Supplied(j, r, c)
    /\ share \in ShareDirs
    /\ xacroOk \in BOOLEAN
    /\ launch_configurations = overrides
    /\ pc = 1
    /\ status = "running"
    /\ error = "none"
    /\ emitted = << >>

---------------------------------------------------------------------------
(* The entities of the LaunchDescription, in list order                    *)

At(k) == status = "running" /\ pc = k

Advance == /\ pc' = pc + 1
           /\ UNCHANGED <<status, error>>

Raise(e) == /\ status' = "error"
            /\ error' = e
            /\ UNCHANGED pc

\* DeclareLaunchArgument.execute without choices: a missing value takes the default
Declared(lc, name, default) ==
    IF name \in DOMAIN lc THEN lc ELSE (name :> default) @@ lc

DeclareUseJsp ==
    /\ At(1)
    /\ launch_configurations' = Declared(launch_configurations, "use_jsp", UseJspDefault)
    /\ Advance
    /\ UNCHANGED <<overrides, share, xacroOk, emitted>>

DeclareUseRviz ==
    /\ At(2)
    /\ launch_configurations' = Declared(launch_configurations, "use_rviz", UseRvizDefault)
    /\ Advance
    /\ UNCHANGED <<overrides, share, xacroOk, emitted>>

\* DeclareLaunchArgument.execute with choices: the value, given or default,
\* must be one of them
DeclareColor ==
    /\ At(3)
    /\ launch_configurations' = Declared(launch_configurations, "color", ColorDefault)
    /\ IF launch_configurations'["color"] \in ColorChoices
       THEN Advance
       ELSE Raise("RuntimeError")
    /\ UNCHANGED <<overrides, share, xacroOk, emitted>>

SetRvizColor ==
    /\ At(4)
    /\ launch_configurations' =
          ("rviz_color" :> RvizColorValue(share, launch_configurations))
             @@ launch_configurations
    /\ Advance
    /\ UNCHANGED <<overrides, share, xacroOk, emitted>>

NodeJspGui ==
    /\ At(5)
    /\ emitted' = IF JspGuiCondition(launch_configurations)
                  THEN Emit(emitted, JspGuiNode(launch_configurations))
                  ELSE emitted
    /\ Advance
    /\ UNCHANGED <<overrides, share, xacroOk, launch_configurations>>

NodeJsp ==
    /\ At(6)
    /\ emitted' = IF JspCondition(launch_configurations)
                  THEN Emit(emitted, JspNode(launch_configurations))
                  ELSE emitted
    /\ Advance
    /\ UNCHANGED <<overrides, share, xacroOk, launch_configurations>>

\* The parameters are performed when the Node is executed; a failing
\* Command raises SubstitutionFailure out of the visit.
NodeRobotStatePublisher ==
    /\ At(7)
    /\ IF xacroOk
       THEN /\ emitted' = Emit(emitted, RobotStatePublisherNode(share, launch_configurations))
            /\ Advance
       ELSE /\ Raise("SubstitutionFailure")
            /\ UNCHANGED emitted
    /\ UNCHANGED <<overrides, share, xacroOk, launch_configurations>>

NodeRviz ==
    /\ At(8)
    /\ emitted' = IF RvizCondition(launch_configurations)
                  THEN Emit(emitted, RvizNode(share, launch_configurations))
                  ELSE emitted
    /\ pc' = pc + 1
    /\ status' = "done"
    /\ UNCHANGED <<overrides, share, xacroOk, launch_configurations, error>>

Next ==
    \/ DeclareUseJsp
    \/ DeclareUseRviz
    \/ DeclareColor
    \/ SetRvizColor
    \/ NodeJspGui
    \/ NodeJsp
    \/ NodeRobotStatePublisher
    \/ NodeRviz

Spec == Init /\ [][Next]_vars

---------------------------------------------------------------------------
(* Vocabulary of the properties                                            *)

Has(package) == \E i \in 1..Len(emitted) : emitted[i].package = package

HasJspGui == Has("joint_state_publisher_gui")
HasJsp    == Has("joint_state_publisher")
HasRsp    == Has("robot_state_publisher")
HasRviz   == Has("rviz2")

\* the value an argument resolves to: the one given, else the default
Resolved(name, default) ==
    IF name \in DOMAIN overrides THEN overrides[name] ELSE default

ResolvedUseJsp  == Resolved("use_jsp", <<"g", "u", "i">>)
ResolvedUseRviz == Resolved("use_rviz", <<"t", "r", "u", "e">>)
ResolvedColor   == Resolved("color", <<"p", "u", "r", "p", "l", "e">>)

AllowedColors ==
    {<<"r", "e", "d">>, <<"g", "r", "e", "e", "n">>, <<"b", "l", "u", "e">>, <<"p", "u", "r", "p", "l", "e">>, <<"c", "y", "a", "n">>, <<"m", "a", "g", "e", "n", "t", "a">>, <<"y", "e", "l", "l", "o", "w">>, << >>}

AllowedUseJsp == {<<"g", "u", "i">>, <<"j", "s", "p">>, <<"n", "o", "n", "e">>}

\* both joint-state entities have been visited
JointStateDecided == pc > 6

\* position of a candidate in the LaunchDescription
DeclarationRank(package) ==
    CASE package = "joint_state_publisher_gui" -> 1
      [] package = "joint_state_publisher"     -> 2
      [] package = "robot_state_publisher"     -> 3
      [] package = "rviz2"                     -> 4

Parameter(node, key) ==
    LET i == CHOOSE k \in 1..Len(node.parameters) : node.parameters[k][1] = key
    IN  node.parameters[i][2]

---------------------------------------------------------------------------
\* C1: once both joint-state candidates have been visited, use_jsp = "gui"
\* has included joint_state_publisher_gui and not joint_state_publisher,
\* use_jsp = "jsp" the reverse, and use_jsp = "none" neither of the two,
\* for every use_rviz and every allowed color.
C1_JointStateSelection ==
    JointStateDecided =>
        /\ ResolvedUseJsp = <<"g", "u", "i">>  => (HasJspGui /\ ~HasJsp)
        /\ ResolvedUseJsp = <<"j", "s", "p">>  => (~HasJspGui /\ HasJsp)
        /\ ResolvedUseJsp = <<"n", "o", "n", "e">> => (~HasJspGui /\ ~HasJsp)

C1_Witness ==
    /\ status = "done"
    /\ ResolvedUseJsp = <<"j", "s", "p">>
    /\ ResolvedUseRviz = <<"f", "a", "l", "s", "e">>
    /\ HasJsp /\ ~HasJspGui

\* C2: a completed resolution holds robot_state_publisher, and holds rviz2
\* exactly when use_rviz is the literal string "true".
C2_ViewerIffLiteralTrue ==
    status = "done" =>
        /\ HasRsp
        /\ HasRviz <=> (ResolvedUseRviz = <<"t", "r", "u", "e">>)

\* C3: a color override outside the allowed set stops the resolution at the
\* declaration of color with an error, and no process spec is ever emitted.
C3_BadColorEmitsNothing ==
    ("color" \in DOMAIN overrides /\ overrides["color"] \notin AllowedColors) =>
        /\ emitted = << >>
        /\ pc <= 3
        /\ status # "done"
        /\ status = "error" => error = "RuntimeError"

C3_Witness ==
    /\ "color" \in DOMAIN overrides
    /\ overrides["color"] = <<"o", "r", "a", "n", "g", "e">>
    /\ ResolvedUseJsp = <<"j", "s", "p">>
    /\ status = "error"
    /\ error = "RuntimeError"

\* C4: when the xacro command fails, the resolution ends in an error with no
\* process spec emitted.
C4_XacroFailureEmitsNothing ==
    (status = "error" /\ error = "SubstitutionFailure") => emitted = << >>

\* C5: a use_jsp value outside {gui, jsp, none} never gives a completed
\* resolution and never a process spec.
C5_UseJspRestricted ==
    ResolvedUseJsp \notin AllowedUseJsp => (status # "done" /\ emitted = << >>)

\* C6 as stated: rviz_color is exactly "config/basic_" + color + ".rviz".
C6_Original ==
    "rviz_color" \in DOMAIN launch_configurations =>
        launch_configurations["rviz_color"] =
            <<"c", "o", "n", "f", "i", "g", "/", "b", "a", "s", "i", "c", "_">> \o ResolvedColor \o <<".", "r", "v", "i", "z">>

\* C6 as amended: rviz_color is the package share directory followed by
\* "/config/basic_", the color and ".rviz", with nothing before or after.
C6_RvizColorUnderShare ==
    "rviz_color" \in DOMAIN launch_configurations =>
        /\ ResolvedColor \in AllowedColors
        /\ launch_configurations["rviz_color"] =
              share \o <<"/", "c", "o", "n", "f", "i", "g", "/", "b", "a", "s", "i", "c", "_">> \o ResolvedColor \o <<".", "r", "v", "i", "z">>

C6_Witness ==
    /\ "rviz_color" \in DOMAIN launch_configurations
    /\ ResolvedColor = <<"r", "e", "d">>
    /\ launch_configurations["rviz_color"] =
          <<"/", "o", "p", "t", "/", "w", "s", "/", "s", "h", "a", "r", "e", "/", "n", "u", "t", "u", "r", "t", "l", "e", "_", "d", "e", "s", "c", "r", "i", "p", "t", "i", "o", "n", "/", "c", "o", "n", "f", "i", "g", "/", "b", "a", "s", "i", "c", "_", "r", "e", "d", ".", "r", "v", "i", "z">>

\* C7: the emitted specs are in declaration order (joint_state_publisher_gui,
\* joint_state_publisher, robot_state_publisher, rviz2), whichever are left out.
C7_DeclarationOrder ==
    \A i, j \in 1..Len(emitted) :
        i < j => DeclarationRank(emitted[i].package) < DeclarationRank(emitted[j].package)

C7_Witness ==
    /\ status = "done"
    /\ Len(emitted) = 3
    /\ emitted[1].package = "joint_state_publisher_gui"
    /\ emitted[2].package = "robot_state_publisher"
    /\ emitted[3].package = "rviz2"

\* C8: every emitted spec has the resolved color (the override, or "purple"
\* when there is none) as its namespace.
C8_NamespaceIsColor ==
    \A i \in 1..Len(emitted) : emitted[i].namespace = ResolvedColor

C8_Witness ==
    /\ status = "done"
    /\ "color" \notin DOMAIN overrides
    /\ Len(emitted) = 3
    /\ \A i \in 1..3 : emitted[i].namespace = <<"p", "u", "r", "p", "l", "e">>

\* C9 as stated: for every allowed color, the empty one included, the
\* frame_prefix of robot_state_publisher is the color followed by "/".
C9_Original ==
    \A i \in 1..Len(emitted) :
        emitted[i].package = "robot_state_publisher" =>
            Parameter(emitted[i], "frame_prefix") = ResolvedColor \o <<"/">>

\* C9 as amended: for every non-empty allowed color the frame_prefix of
\* robot_state_publisher is the color followed by a single "/"; for the empty
\* color it is the empty string.
C9_FramePrefix ==
    \A i \in 1..Len(emitted) :
        emitted[i].package = "robot_state_publisher" =>
            Parameter(emitted[i], "frame_prefix") =
                IF ResolvedColor = << >> THEN << >> ELSE ResolvedColor \o <<"/">>

C9_Witness ==
    /\ HasRsp
    /\ ResolvedColor = << >>
    /\ \E i \in 1..Len(emitted) :
          /\ emitted[i].package = "robot_state_publisher"
          /\ Parameter(emitted[i], "frame_prefix") = << >>

\* C10: joint_state_publisher_gui and joint_state_publisher are never both
\* among the emitted specs, whatever string use_jsp resolves to.
C10_AtMostOneJointState == ~(HasJspGui /\ HasJsp)

C10_Witness ==
    /\ status = "done"
    /\ ResolvedUseJsp = <<"b", "o", "t", "h">>
    /\ ~HasJspGui /\ ~HasJsp
    /\ HasRsp

=============================================================================
